---- MODULE Spec2Model ----
(***************************************************************************)
(* Model of addons/web/models/ir_http.py (class Http, _inherit 'ir.http'): *)
(* debug-mode handling of the request session, the session_info payload,   *)
(* and the binary / image content responses.                               *)
(*                                                                         *)
(* Python strings are modelled as sequences of one-character strings, so   *)
(* that split, join and lower act on characters as they do in the code.    *)
(***************************************************************************)
EXTENDS Integers, Sequences, FiniteSets, TLC

VARIABLES session, request, response, history

vars == <<session, request, response, history>>

(***************************************************************************)
(* Bounds of the model.                                                    *)
(***************************************************************************)
\* largest number of comma-separated components of a `debug` parameter
MaxModes == 2

(***************************************************************************)
(* Strings.                                                                *)
(***************************************************************************)
UpperCase == <<"A", "B", "C", "D", "E", "F", "G", "H", "I", "J", "K", "L", "M",
               "N", "O", "P", "Q", "R", "S", "T", "U", "V", "W", "X", "Y", "Z">>

LowerCase == <<"a", "b", "c", "d", "e", "f", "g", "h", "i", "j", "k", "l", "m",
               "n", "o", "p", "q", "r", "s", "t", "u", "v", "w", "x", "y", "z">>

\* str.lower() on one character
LowerChar(c) ==
    IF \E i \in DOMAIN UpperCase : UpperCase[i] = c
    THEN LowerCase[CHOOSE i \in DOMAIN UpperCase : UpperCase[i] = c]
    ELSE c

\* str.lower()
lower(s) == [i \in DOMAIN s |-> LowerChar(s[i])]

\* str.split(','): the pieces between the commas, [''] for the empty string
RECURSIVE split(_)
split(s) ==
    IF \E i \in DOMAIN s : s[i] = ","
    THEN LET i == CHOOSE k \in DOMAIN s :
                      s[k] = "," /\ \A j \in 1..(k - 1) : s[j] # ","
         IN  <<SubSeq(s, 1, i - 1)>> \o split(SubSeq(s, i + 1, Len(s)))
    ELSE <<s>>

\* ','.join(parts)
RECURSIVE join(_)
join(parts) ==
    IF Len(parts) = 0 THEN <<>>
    ELSE IF Len(parts) = 1 THEN parts[1]
    ELSE parts[1] \o <<",">> \o join(Tail(parts))

\* an optional value: Python's None, or a value that is present
None == [present |-> FALSE, value |-> <<>>]

Some(v) == [present |-> TRUE, value |-> v]

(***************************************************************************)
(* odoo.tools.misc.str2bool(s, default): the lower-cased string is looked  *)
(* up among the truthy and falsy words; an unrecognised string gives       *)
(* bool(default).  _handle_debug always passes the mode itself as default. *)
(***************************************************************************)
TruthyWords == { <<"y">>, <<"y", "e", "s">>, <<"1">>, <<"t", "r", "u", "e">>,
                 <<"t">>, <<"o", "n">> }

FalsyWords == { <<"n">>, <<"n", "o">>, <<"0">>, <<"f", "a", "l", "s", "e">>,
                <<"f">>, <<"o", "f", "f">> }

str2bool(s, default) ==
    IF lower(s) \notin (TruthyWords \cup FalsyWords)
    THEN Len(default) > 0
    ELSE lower(s) \in TruthyWords

(***************************************************************************)
(* Debug mode.                                                             *)
(***************************************************************************)
ALLOWED_DEBUG_MODES ==
    << <<>>, <<"1">>, <<"a", "s", "s", "e", "t", "s">>, <<"t", "e", "s", "t", "s">> >>

AllowedModes == { ALLOWED_DEBUG_MODES[i] : i \in DOMAIN ALLOWED_DEBUG_MODES }

\* mutants of DebugMode: an unknown truthy mode is stored as it is; the
\* truthy and the falsy results are exchanged
DebugModeKeep(mode) ==
    IF mode \in AllowedModes THEN mode
    ELSE IF str2bool(mode, mode) THEN mode
    ELSE <<>>

DebugModeSwapped(mode) ==
    IF mode \in AllowedModes THEN mode
    ELSE IF str2bool(mode, mode) THEN <<>>
    ELSE <<"1">>

\* the generator expression's value for one component of the parameter
DebugMode(mode) ==
    IF mode \in AllowedModes THEN mode
    ELSE IF str2bool(mode, mode) THEN <<"1">>
    ELSE <<>>

\* mutant of HandleDebugValue: `if debug:` instead of `if debug is not None:`
HandleDebugValueTruthy(debug, old) ==
    IF debug.present /\ Len(debug.value) > 0
    THEN LET modes == split(debug.value)
         IN  join([i \in DOMAIN modes |-> DebugMode(modes[i])])
    ELSE old

\* the value of request.session.debug after _handle_debug, `debug` being
\* request.httprequest.args.get('debug') and `old` the value before
HandleDebugValue(debug, old) ==
    IF debug.present
    THEN LET modes == split(debug.value)
         IN  join([i \in DOMAIN modes |-> DebugMode(modes[i])])
    ELSE old

(***************************************************************************)
(* The requests of the model: the `debug` query parameter is absent, one   *)
(* of SingleWords, or a comma-separated list of 2..MaxModes of ListWords.  *)
(***************************************************************************)
ListWords ==
    { <<>>, <<"1">>, <<"a", "s", "s", "e", "t", "s">>, <<"t", "e", "s", "t", "s">>,
      <<" ", "a", "s", "s", "e", "t", "s">>, <<"0">>, <<"o", "n">> }

SingleWords ==
    ListWords \cup
    { <<"f", "a", "l", "s", "e">>, <<"f">>, <<"o", "f", "f">>, <<"n">>, <<"n", "o">>,
      <<"F", "a", "l", "s", "E">>, <<"O", "f", "f">>, <<"N", "O">>, <<"t", "r", "u", "e">>,
      <<"Y">>, <<"T", "e", "s", "t", "s">>, <<"x">>, <<"2">> }

WordLists == UNION { [1..n -> ListWords] : n \in 2..MaxModes }

DebugParams ==
    {None} \cup { Some(w) : w \in SingleWords } \cup { Some(join(ws)) : ws \in WordLists }

\* session debug values a session can start with: '' (a new session) and a
\* string of allowed modes
InitialDebugs == { <<>>, <<"t", "e", "s", "t", "s", ",", "a", "s", "s", "e", "t", "s">> }

NoResponse == [kind |-> "none"]

InitDebug ==
    /\ \E d \in InitialDebugs :
          /\ session = [debug |-> d, uid |-> 0, context |-> {}]
          /\ history = [initial |-> d, last |-> None]
    /\ request = [op |-> "none", debug |-> None]
    /\ response = NoResponse

\* _pre_dispatch(rule, args): super()._pre_dispatch, which leaves the debug
\* value alone, then _handle_debug()
_pre_dispatch ==
    \E debug \in DebugParams :
        /\ request' = [op |-> "_pre_dispatch", debug |-> debug]
        /\ session' = [session EXCEPT !.debug = HandleDebugValue(debug, @)]
        /\ history' = IF debug.present
                      THEN [history EXCEPT !.last = debug]
                      ELSE history
        /\ UNCHANGED response

NextDebug == _pre_dispatch

SpecDebug == InitDebug /\ [][NextDebug]_vars

(***************************************************************************)
(* Binary and image content.                                               *)
(*                                                                         *)
(* binary_content, _response_by_status, request.make_response,             *)
(* request.not_found, image_process and set_safe_image_headers belong to   *)
(* the framework: binary_content's result is an input of the model, the    *)
(* responses record what they were built from.                             *)
(***************************************************************************)
\* longest content, in bytes, binary_content returns in the model
MaxContentLen == 2

Bytes == {0, 255}

Contents == UNION { [1..n -> Bytes] : n \in 0..MaxContentLen }

ContentType == <<"Content-Type", "image/png">>

HeaderLists == { <<>>, <<ContentType>>, << <<"ETag", "abc">>, ContentType >> }

\* a Python int or str argument (width, height, quality)
IntArg(v) == [t |-> "int", v |-> v, s |-> <<>>]

StrArg(s) == [t |-> "str", v |-> 0, s |-> s]

\* bool(x)
Truthy(x) == IF x.t = "int" THEN x.v # 0 ELSE Len(x.s) > 0

Digits == <<"0", "1", "2", "3", "4", "5", "6", "7", "8", "9">>

IsDigit(c) == \E d \in DOMAIN Digits : Digits[d] = c

DigitValue(c) == (CHOOSE d \in DOMAIN Digits : Digits[d] = c) - 1

\* int(x) raises ValueError on a string that is not a number
IntRaises(x) == x.t = "str" /\ (Len(x.s) = 0 \/ \E i \in DOMAIN x.s : ~IsDigit(x.s[i]))

RECURSIVE ParseInt(_)
ParseInt(s) ==
    IF Len(s) = 0 THEN 0
    ELSE 10 * ParseInt(SubSeq(s, 1, Len(s) - 1)) + DigitValue(s[Len(s)])

\* int(x)
IntOf(x) == IF x.t = "int" THEN x.v ELSE ParseInt(x.s)

\* image bytes: `name` says where they come from ("" for empty content),
\* `decodable` whether they are an image the image library can decode
Image(name, decodable) == [name |-> name, decodable |-> decodable]

NoImage == Image("", FALSE)

NoBody == Image("", FALSE)

DefaultPlaceholder == Image("web/static/img/placeholder.png", TRUE)

\* responses
ResponseByStatus(status, headers, content) ==
    [kind |-> "_response_by_status", status |-> status, headers |-> headers,
     body |-> content]

MakeResponse(content, headers) ==
    [kind |-> "response", status |-> 200, headers |-> headers, body |-> content]

NotFound == [kind |-> "not_found", status |-> 404, headers |-> <<>>, body |-> NoBody]

Raised(exc) == [kind |-> "exception", status |-> 500, headers |-> <<>>, body |-> exc]

\* mutant of GetContentCommon: no Content-Length entry
GetContentCommonNoLength(status, headers, content) ==
    IF status # 200
    THEN ResponseByStatus(status, headers, content)
    ELSE MakeResponse(content, headers)

\* _get_content_common, (status, headers, content) being binary_content's result
GetContentCommon(status, headers, content) ==
    IF status # 200
    THEN ResponseByStatus(status, headers, content)
    ELSE MakeResponse(content, Append(headers, <<"Content-Length", Len(content)>>))

\* http.set_safe_image_headers(headers, content)
SetHeader(headers, name, value) ==
    SelectSeq(headers, LAMBDA h : h[1] # name) \o << <<name, value>> >>

SetSafeImageHeaders(headers, content) ==
    SetHeader(SetHeader(headers, "X-Content-Type-Options", "nosniff"),
              "Content-Length", "len(content)")

\* odoo.tools.image_guess_size_from_field_name(field)
ImageGuessSize(field) ==
    IF field = "image_128" THEN <<IntArg(128), IntArg(128)>>
    ELSE <<IntArg(0), IntArg(0)>>

\* _placeholder(image): the bytes of the named file, of the default
\* placeholder when no file is named; file_open raises on a file it cannot
\* open
Placeholder(filename, readable) ==
    IF filename = "" THEN [raised |-> FALSE, image |-> DefaultPlaceholder]
    ELSE IF readable THEN [raised |-> FALSE, image |-> Image(filename, TRUE)]
    ELSE [raised |-> TRUE, image |-> NoImage]

\* the first test of _content_image_get_response: answered by status
ByStatus(a) == a.status \in {301, 304} \/ (a.status # 200 /\ a.download)

\* placeholder_filename of a call with no image: False ("") unless the model
\* is in the environment, and then what _get_placeholder_filename gives
PlaceholderFilename(a) == IF a.model_in_env THEN a.placeholder_filename ELSE ""

\* mutant of MissingImageStatus: the status of the miss is kept
MissingImageStatusKept(status) == status

\* the status once a placeholder stands for the missing image
MissingImageStatus(status) == 200

\* the call's (status, image, width, height) after the `if not image` block
WithPlaceholder(a) ==
    IF a.image.name # "" THEN a
    ELSE LET guess == ImageGuessSize(a.field)
             sized == ~(Truthy(a.width) \/ Truthy(a.height))
         IN  [a EXCEPT !.image = Placeholder(PlaceholderFilename(a), a.file_readable).image,
                       !.status = MissingImageStatus(a.status),
                       !.width = IF sized THEN guess[1] ELSE @,
                       !.height = IF sized THEN guess[2] ELSE @]

\* whether image_process(image, size=(int(width), int(height)), crop=crop,
\* quality=int(quality)) raises: a conversion fails, or the image library
\* fails on bytes it cannot decode (a.decode_fails, only for such bytes)
ImageProcessRaises(b) ==
    \/ IntRaises(b.width) \/ IntRaises(b.height) \/ IntRaises(b.quality)
    \/ (~b.image.decodable /\ b.decode_fails)

ImageProcess(b) ==
    [name |-> b.image.name, decodable |-> b.image.decodable,
     size |-> <<IntOf(b.width), IntOf(b.height)>>, crop |-> b.crop,
     quality |-> IntOf(b.quality)]

\* the response built from the processed image
ImageResponse(b) ==
    LET content == ImageProcess(b)
    IN  [MakeResponse(content, SetSafeImageHeaders(b.headers, content))
            EXCEPT !.status = b.status]

\* mutant of OnProcessError: the error is swallowed and the bytes are sent
OnProcessErrorSend(b) ==
    [MakeResponse(b.image, SetSafeImageHeaders(b.headers, b.image))
        EXCEPT !.status = b.status]

\* the except clause around image_process
OnProcessError(b) == NotFound

\* _content_image_get_response(status, headers, image, model, field,
\* download, width, height, crop, quality)
ContentImageGetResponse(a) ==
    IF ByStatus(a) THEN ResponseByStatus(a.status, a.headers, a.image)
    ELSE IF a.image.name = "" /\ Placeholder(PlaceholderFilename(a), a.file_readable).raised
    THEN Raised(Image("file_open", FALSE))
    ELSE LET b == WithPlaceholder(a)
         IN  IF ImageProcessRaises(b) THEN OnProcessError(b) ELSE ImageResponse(b)

SizeArgs == { IntArg(0), IntArg(64), StrArg(<<"6", "4">>), StrArg(<<"a", "b", "c">>) }

QualityArgs == { IntArg(0), StrArg(<<"h", "i">>) }

Images == { NoImage, Image("field", TRUE), Image("field", FALSE) }

ImageCalls ==
    [status : {200, 301, 304, 404}, headers : {<<>>, <<ContentType>>}, image : Images,
     model_in_env : BOOLEAN, placeholder_filename : {"", "base/static/img/avatar.png"},
     file_readable : BOOLEAN, field : {"raw", "image_128"}, download : BOOLEAN,
     width : SizeArgs, height : SizeArgs, crop : BOOLEAN, quality : QualityArgs,
     decode_fails : BOOLEAN]

\* calls the environment can make: file_readable and decode_fails describe
\* the placeholder file and the bytes, and say nothing where there is none
ImageCall(a) ==
    /\ a.decode_fails => (a.image.name # "" /\ ~a.image.decodable)
    /\ ~a.file_readable => (a.image.name = "" /\ PlaceholderFilename(a) # "")
    /\ a.placeholder_filename # "" => a.model_in_env

\* what binary_content gives _content_image: content with 200, none otherwise
BinaryContentResult(a) ==
    /\ a.status = 200 => a.image.name # ""
    /\ a.status # 200 => a.image.name = ""

Idle == [op |-> "none"]

InitBinary ==
    /\ session = [debug |-> <<>>, uid |-> 0, context |-> {}]
    /\ history = [initial |-> <<>>, last |-> None]
    /\ request = Idle
    /\ response = NoResponse

_get_content_common ==
    /\ request = Idle
    /\ \E status \in {200, 301, 304, 404}, headers \in HeaderLists, content \in Contents :
          /\ request' = [op |-> "_get_content_common", status |-> status,
                         headers |-> headers, content |-> content]
          /\ response' = GetContentCommon(status, headers, content)
    /\ UNCHANGED <<session, history>>

_content_image ==
    /\ request = Idle
    /\ \E a \in ImageCalls :
          /\ ImageCall(a)
          /\ BinaryContentResult(a)
          /\ request' = [op |-> "_content_image", args |-> a]
          /\ response' = ContentImageGetResponse(a)
    /\ UNCHANGED <<session, history>>

_content_image_get_response ==
    /\ request = Idle
    /\ \E a \in ImageCalls :
          /\ ImageCall(a)
          /\ request' = [op |-> "_content_image_get_response", args |-> a]
          /\ response' = ContentImageGetResponse(a)
    /\ UNCHANGED <<session, history>>

\* the response is sent and the request is over
EndRequest ==
    /\ request # Idle
    /\ request' = Idle
    /\ response' = NoResponse
    /\ UNCHANGED <<session, history>>

NextBinary ==
    \/ _get_content_common
    \/ _content_image
    \/ _content_image_get_response
    \/ EndRequest

SpecBinary == InitBinary /\ [][NextBinary]_vars

(***************************************************************************)
(* session_info.                                                           *)
(*                                                                         *)
(* Python dicts whose key order matters (what json.dumps reads) are        *)
(* sequences of <<key, value>> pairs in insertion order; JSON values are   *)
(* ints, strings (IntArg, StrArg) and dicts.                               *)
(***************************************************************************)
\* largest number of entries of a load_menus result
MaxMenus == 2

Dict(items) == [t |-> "dict", items |-> items]

\* ord(c) for the characters of the model
ord(c) ==
    CASE c = " " -> 32
      [] c = "\"" -> 34
      [] c = "," -> 44
      [] c = ":" -> 58
      [] c = "_" -> 95
      [] c = "{" -> 123
      [] c = "}" -> 125
      [] IsDigit(c) -> 48 + DigitValue(c)
      [] \E i \in DOMAIN UpperCase : UpperCase[i] = c ->
            64 + (CHOOSE i \in DOMAIN UpperCase : UpperCase[i] = c)
      [] OTHER -> 96 + (CHOOSE i \in DOMAIN LowerCase : LowerCase[i] = c)

\* a < b for Python strings
RECURSIVE StrLess(_, _)
StrLess(a, b) ==
    IF Len(b) = 0 THEN FALSE
    ELSE IF Len(a) = 0 THEN TRUE
    ELSE IF a[1] = b[1] THEN StrLess(Tail(a), Tail(b))
    ELSE ord(a[1]) < ord(b[1])

\* str(n) for an int n >= 0
RECURSIVE StrOfInt(_)
StrOfInt(n) ==
    IF n < 10 THEN <<Digits[n + 1]>>
    ELSE StrOfInt(n \div 10) \o <<Digits[(n % 10) + 1]>>

\* str(k) for a dict key
str(k) == IF k.t = "int" THEN StrOfInt(k.v) ELSE k.s

\* d[k] = v on a dict: a key already there keeps its place
DictSet(items, k, v) ==
    IF \E i \in DOMAIN items : items[i][1] = k
    THEN [i \in DOMAIN items |-> IF items[i][1] = k THEN <<k, v>> ELSE items[i]]
    ELSE Append(items, <<k, v>>)

\* {str(k): v for k, v in menus.items()}
RECURSIVE StrKeys(_, _)
StrKeys(done, items) ==
    IF Len(items) = 0 THEN done
    ELSE StrKeys(DictSet(done, str(items[1][1]), items[1][2]), Tail(items))

OrderedMenus(menus) == StrKeys(<<>>, menus)

\* sorted(items) by key
RECURSIVE SortItems(_)
SortItems(items) ==
    IF Len(items) = 0 THEN <<>>
    ELSE LET i == CHOOSE k \in DOMAIN items :
                      \A j \in DOMAIN items : ~StrLess(items[j][1], items[k][1])
         IN  <<items[i]>> \o
             SortItems(SubSeq(items, 1, i - 1) \o SubSeq(items, i + 1, Len(items)))

\* mutant of JsonItems: json.dumps without sort_keys
JsonItemsUnsorted(items) == items

\* the items of a dict in the order json.dumps(sort_keys=True) writes them
JsonItems(items) == SortItems(items)

\* json.dumps(j, sort_keys=True)
RECURSIVE dumps(_)
RECURSIVE DumpItems(_)
DumpItems(items) ==
    IF Len(items) = 0 THEN <<>>
    ELSE <<"\"">> \o items[1][1] \o <<"\"", ":", " ">> \o dumps(items[1][2]) \o
         (IF Len(items) = 1 THEN <<>> ELSE <<",", " ">> \o DumpItems(Tail(items)))

dumps(j) ==
    CASE j.t = "int" -> StrOfInt(j.v)
      [] j.t = "str" -> <<"\"">> \o j.s \o <<"\"">>
      [] OTHER -> <<"{">> \o DumpItems(JsonItems(j.items)) \o <<"}">>

\* str.encode()
encode(s) == [i \in DOMAIN s |-> ord(s[i])]

HexDigits == <<"0", "1", "2", "3", "4", "5", "6", "7", "8", "9",
               "a", "b", "c", "d", "e", "f">>

\* hashlib.sha512(data).hexdigest(): 128 lower-case hex digits that depend
\* on every byte and on the order of the bytes.  The digest itself belongs
\* to the library; a polynomial checksum of the bytes stands for it.
RECURSIVE Mix(_, _, _)
Mix(data, lo, hi) ==
    IF lo > hi THEN 7
    ELSE IF lo = hi THEN (data[lo] * (lo * lo + 1)) % 65521
    ELSE LET mid == (lo + hi) \div 2
         IN  (Mix(data, lo, mid) * 31 + Mix(data, mid + 1, hi)) % 65521

sha512_hexdigest(data) ==
    LET h == Mix(data, 1, Len(data))
    IN  [i \in 1..128 |-> HexDigits[(((h \div (1 + (i % 7))) + (i * (1 + (h % 13)))) % 16) + 1]]

\* [:64]
Truncate(digest) == SubSeq(digest, 1, 64)

\* the load_menus cache hash of a load_menus result
LoadMenusHash(menus) ==
    LET ordered_menus == OrderedMenus(menus)
        menu_json_utf8 == encode(dumps(Dict(ordered_menus)))
    IN  Truncate(sha512_hexdigest(menu_json_utf8))

\* the companies of the database
Company(c) ==
    [id |-> c, name |-> IF c = 1 THEN "YourCompany" ELSE "Other", sequence |-> 10 * c]

\* mutant of BackendPart: the backend part is given to every user
BackendPartForAll(user) == TRUE

\* self.env.user.has_group('base.group_user')
BackendPart(user) == user.group_user

\* user.has_group('base.group_multi_company') and len(user.company_ids) > 1
DisplaySwitch(user) == user.group_multi_company /\ Cardinality(user.company_ids) > 1

\* mutant of UserContext: the context of the session is returned
UserContextOfSession(sess, context_get) == sess.context

\* user_context: the user's context for a logged-in session, {} otherwise
\* (a session uid of 0 stands for the falsy uid of a session without login)
UserContext(sess, context_get) == IF sess.uid # 0 THEN context_get ELSE {}

\* request.session after session_info
SessionAfterInfo(sess, context_get) ==
    IF sess.uid # 0 /\ UserContext(sess, context_get) # sess.context
    THEN [sess EXCEPT !.context = UserContext(sess, context_get)]
    ELSE sess

Lookup(dict, key) == (CHOOSE kv \in dict : kv[1] = key)[2]

\* session_info(): `sess` is request.session, `e` what the environment
\* gives: the user, context_get(), load_menus() and the qweb checksum.  The
\* entries that the environment fixes (db, versions, urls, profiling,
\* upload limits, currencies) are left out of the payload.
SessionInfo(sess, e) ==
    LET user == e.user
        session_uid == sess.uid
        user_context == UserContext(sess, e.context_get)
        after == SessionAfterInfo(sess, e.context_get)
        base ==
            [uid |-> session_uid,
             is_system |-> IF session_uid # 0 THEN user.is_system ELSE FALSE,
             is_admin |-> IF session_uid # 0 THEN user.is_admin ELSE FALSE,
             user_context |-> user_context,
             name |-> user.name,
             username |-> user.login,
             company_id |-> IF session_uid # 0 THEN Some(user.company_id) ELSE None,
             partner_id |-> IF session_uid # 0 /\ user.partner_id # 0
                            THEN Some(user.partner_id) ELSE None,
             cache_hashes |->
                 [translations |-> IF session_uid # 0
                                   THEN Some(<<"translations", Lookup(after.context, "lang")>>)
                                   ELSE None]]
    IN  IF BackendPart(user)
        THEN [user_companies |->
                  [current_company |-> user.company_id,
                   allowed_companies |-> [c \in user.company_ids |-> Company(c)]],
              show_effect |-> TRUE,
              display_switch_company_menu |-> DisplaySwitch(user)]
             @@ [base EXCEPT !.cache_hashes =
                    [load_menus |-> LoadMenusHash(e.menus), qweb |-> e.qweb] @@ @]
        ELSE base

(***************************************************************************)
(* The environment of session_info in the model.                           *)
(***************************************************************************)
Users ==
    { u \in [id : {2}, name : {"Mitchell Admin"}, login : {"admin"},
             is_system : BOOLEAN, is_admin : BOOLEAN,
             group_user : BOOLEAN, group_multi_company : BOOLEAN,
             company_id : {1}, company_ids : {{1}, {1, 2}, {2, 3}},
             partner_id : {0, 3}] :
        u.is_system => u.is_admin }

ContextEN == { <<"lang", "en_US">>, <<"tz", "UTC">> }

ContextFR == { <<"lang", "fr_FR">>, <<"tz", "UTC">> }

\* the context of a session before session_info
SessionContexts == { { <<"lang", "en_US">> }, ContextEN }

MenuKeys == { IntArg(2), IntArg(10), StrArg(<<"r", "o", "o", "t">>) }

MenuName == <<"n", "a", "m", "e">>

MenuId == <<"i", "d">>

MenuValues ==
    { Dict(<< <<MenuId, IntArg(1)>>, <<MenuName, StrArg(<<"A">>)>> >>),
      Dict(<< <<MenuName, StrArg(<<"A">>)>>, <<MenuId, IntArg(1)>> >>),
      Dict(<< <<MenuId, IntArg(2)>>, <<MenuName, StrArg(<<"B">>)>> >>) }

\* load_menus results: up to MaxMenus entries, each key once
Menus ==
    UNION { { m \in [1..n -> MenuKeys \X MenuValues] :
                \A i, j \in 1..n : i # j => m[i][1] # m[j][1] } : n \in 0..MaxMenus }

\* the load_menus results a user can get: the system administrator gets
\* every result of the model, another internal user one of two, and
\* load_menus is not called for a user who is not internal
MenusOf(user) ==
    IF ~user.group_user THEN { <<>> }
    ELSE IF user.is_system /\ user.partner_id # 0 /\ user.company_ids = {1, 2}
    THEN Menus
    ELSE { m \in Menus : Len(m) = 0 \/ (Len(m) = 2 /\ m[1][1] = IntArg(2)
                                          /\ m[1][2] = m[2][2]) }

InitInfo ==
    /\ \E uid \in {0, 2}, context \in SessionContexts :
          session = [debug |-> <<>>, uid |-> uid, context |-> context]
    /\ history = [initial |-> <<>>, last |-> None]
    /\ request = Idle
    /\ response = NoResponse

session_info ==
    /\ request = Idle
    /\ \E user \in Users, context_get \in {ContextEN, ContextFR} :
       \E menus \in MenusOf(user) :
          LET e == [user |-> user, context_get |-> context_get, menus |-> menus,
                    qweb |-> "qweb_checksum"]
          IN  /\ request' = [op |-> "session_info", env |-> e, session |-> session]
              /\ session' = SessionAfterInfo(session, context_get)
              /\ response' = SessionInfo(session, e)
    /\ UNCHANGED history

NextInfo ==
    \/ session_info
    \/ EndRequest

SpecInfo == InitInfo /\ [][NextInfo]_vars

(***************************************************************************)
(* Properties of the debug mode.                                           *)
(***************************************************************************)
Chars ==
    { UpperCase[i] : i \in DOMAIN UpperCase } \cup { LowerCase[i] : i \in DOMAIN LowerCase }
    \cup { "0", "1", "2", "3", "4", "5", "6", "7", "8", "9", " ", "," }

Components(s) == { split(s)[i] : i \in DOMAIN split(s) }

HasComma(s) == \E i \in DOMAIN s : s[i] = ","

Handled == request.op = "_pre_dispatch"

\* C1: request.session.debug is always a string, and each of its
\* comma-separated components is one of the allowed debug modes '', '1',
\* 'assets', 'tests', whatever the `debug` parameters of the requests were.
C1_DebugAllowed ==
    /\ session.debug \in Seq(Chars)
    /\ Components(session.debug) \subseteq AllowedModes

\* a request whose parameter was not made of allowed modes has been handled
C1_Witness ==
    /\ Handled
    /\ request.debug.present
    /\ HasComma(request.debug.value)
    /\ ~(Components(request.debug.value) \subseteq AllowedModes)
    /\ session.debug # request.debug.value

TestsSpaceAssets ==
    <<"t", "e", "s", "t", "s", ",", " ", "a", "s", "s", "e", "t", "s">>

\* C2: after a request with debug='tests, assets' (the documented example),
\* both the 'tests' mode and the 'assets' mode are components of
\* session.debug.
C2_BothModes ==
    (Handled /\ request.debug = Some(TestsSpaceAssets))
        => /\ <<"t", "e", "s", "t", "s">> \in Components(session.debug)
           /\ <<"a", "s", "s", "e", "t", "s">> \in Components(session.debug)

\* what the claim says one value gives: '' for a falsy one, the mode for an
\* allowed mode, '1' for anything else
ReadsFalse(v) == v = <<>> \/ lower(v) \in FalsyWords

ClaimedMode(v) ==
    IF ReadsFalse(v) THEN <<>>
    ELSE IF v \in AllowedModes THEN v
    ELSE <<"1">>

\* C3 as stated: a falsy `debug` parameter gives session.debug = '', and
\* every other parameter that is not an allowed mode name gives '1'.
C3_AsStated ==
    (Handled /\ request.debug.present)
        => LET v == request.debug.value
           IN  /\ ReadsFalse(v) => session.debug = <<>>
               /\ (~ReadsFalse(v) /\ v \notin AllowedModes) => session.debug = <<"1">>

\* C3 amended: the rule holds for a parameter without a comma; a parameter
\* with commas is handled component by component, each by that rule, and
\* the results are joined with commas.
C3_PerComponent ==
    (Handled /\ request.debug.present)
        => LET v == request.debug.value
               modes == split(v)
           IN  /\ (~HasComma(v) /\ ReadsFalse(v)) => session.debug = <<>>
               /\ (~HasComma(v) /\ ~ReadsFalse(v) /\ v \notin AllowedModes)
                      => session.debug = <<"1">>
               /\ session.debug = join([i \in DOMAIN modes |-> ClaimedMode(modes[i])])

\* a falsy parameter in mixed case has switched a debug session off
C3_Witness ==
    /\ Handled
    /\ request.debug = Some(<<"F", "a", "l", "s", "E">>)
    /\ session.debug = <<>>
    /\ history.initial # <<>>

\* C4: session.debug is what the most recent request carrying a `debug`
\* parameter gave (the initial value if there was none): a request without
\* the parameter leaves it unchanged, while an empty parameter (debug=)
\* resets it to ''.
C4_Persists ==
    /\ session.debug = IF history.last.present
                       THEN HandleDebugValue(history.last, history.initial)
                       ELSE history.initial
    /\ (Handled /\ request.debug = Some(<<>>)) => session.debug = <<>>

\* a request without the parameter has been handled after one that set a
\* debug mode, and the mode is still there
C4_Witness ==
    /\ Handled
    /\ ~request.debug.present
    /\ history.last.present
    /\ session.debug = <<"1", ",", "a", "s", "s", "e", "t", "s">>

(***************************************************************************)
(* Properties of the binary and image content responses.                   *)
(***************************************************************************)
ImageOp == request.op \in {"_content_image", "_content_image_get_response"}

\* the placeholder the call must use: the model's when the model is in the
\* environment and names one, the default one otherwise
ExpectedPlaceholder(a) ==
    IF a.model_in_env /\ a.placeholder_filename # ""
    THEN a.placeholder_filename
    ELSE "web/static/img/placeholder.png"

BadConversion(a) == IntRaises(a.width) \/ IntRaises(a.height) \/ IntRaises(a.quality)

C6_NotFoundOnError ==
    ImageOp
        => /\ (/\ ~ByStatus(request.args)
               /\ request.args.file_readable
               /\ (BadConversion(request.args) \/ request.args.decode_fails))
                  => response = NotFound
           /\ response.kind = "exception" => ~request.args.file_readable

\* undecodable bytes reported with status 200 have been answered not found
C6_Witness ==
    /\ ImageOp
    /\ request.args.status = 200
    /\ request.args.decode_fails
    /\ ~BadConversion(request.args)
    /\ response = NotFound

HasContentLength(headers) == \E i \in DOMAIN headers : headers[i][1] = "Content-Length"

\* C7: _get_content_common answers status 200 with exactly the content and
\* the returned headers plus one ('Content-Length', len(content)) entry;
\* any other status is answered by _response_by_status(status, headers,
\* content), with no Content-Length entry added and no placeholder.
C7_ContentCommon ==
    request.op = "_get_content_common"
        => IF request.status = 200
           THEN /\ response.kind = "response"
                /\ response.body = request.content
                /\ response.headers =
                       Append(request.headers, <<"Content-Length", Len(request.content)>>)
           ELSE /\ response = ResponseByStatus(request.status, request.headers,
                                               request.content)
                /\ ~HasContentLength(response.headers)

\* content of two bytes has been sent with its length
C7_Witness ==
    /\ request.op = "_get_content_common"
    /\ request.status = 200
    /\ Len(request.content) = 2
    /\ response.headers[Len(response.headers)] = <<"Content-Length", 2>>

(***************************************************************************)
(* Properties of session_info.                                             *)
(***************************************************************************)
InfoGiven == request.op = "session_info"

HexChars == { HexDigits[i] : i \in DOMAIN HexDigits }

\* the same dict written in other key orders
Rotate(m) == IF Len(m) < 2 THEN m ELSE Tail(m) \o <<Head(m)>>

SwapFirst(m) == IF Len(m) < 2 THEN m ELSE <<m[2], m[1]>> \o SubSeq(m, 3, Len(m))

Reverse(q) == [i \in 1..Len(q) |-> q[Len(q) + 1 - i]]

FlipFirst(m) ==
    IF Len(m) = 0 THEN m
    ELSE << <<m[1][1], Dict(Reverse(m[1][2].items))>> >> \o Tail(m)

\* C8: the load_menus cache hash is exactly 64 lower-case hex characters
\* and depends on the contents of the menus only: the same keys and values
\* in another dictionary key order (at the top level or inside a menu) give
\* the same hash.  Swapping the first two keys and rotating the keys
\* generate every order of the keys.
C8_MenuHash ==
    (InfoGiven /\ "load_menus" \in DOMAIN response.cache_hashes)
        => LET hash == response.cache_hashes.load_menus
               menus == request.env.menus
           IN  /\ Len(hash) = 64
               /\ \A i \in DOMAIN hash : hash[i] \in HexChars
               /\ hash = LoadMenusHash(Rotate(menus))
               /\ hash = LoadMenusHash(SwapFirst(menus))
               /\ hash = LoadMenusHash(FlipFirst(menus))

\* menus whose keys and whose first menu's keys are not in sorted order
\* have been hashed
C8_Witness ==
    /\ InfoGiven
    /\ "load_menus" \in DOMAIN response.cache_hashes
    /\ Len(request.env.menus) = 2
    /\ request.env.menus[1][1] = StrArg(<<"r", "o", "o", "t">>)
    /\ request.env.menus[2][1] = IntArg(10)
    /\ request.env.menus[1][2].items[1][1] = MenuName
    /\ request.env.menus[1][2] # request.env.menus[2][2]

BackendKeys == { "user_companies", "show_effect", "display_switch_company_menu" }

\* C9: the backend part of the payload (cache_hashes.load_menus and .qweb,
\* user_companies, show_effect, display_switch_company_menu) is there if
\* and only if the user is in base.group_user; then
\* display_switch_company_menu says that the user is in
\* base.group_multi_company with more than one company, and current_company
\* is the user's company, a key of allowed_companies when it is one of the
\* user's companies.
C9_BackendPart ==
    InfoGiven
        => LET user == request.env.user
           IN  /\ \A k \in BackendKeys : k \in DOMAIN response <=> user.group_user
               /\ \A k \in {"load_menus", "qweb"} :
                     k \in DOMAIN response.cache_hashes <=> user.group_user
               /\ user.group_user =>
                     /\ response.display_switch_company_menu
                           = (user.group_multi_company /\ Cardinality(user.company_ids) > 1)
                     /\ response.user_companies.current_company = user.company_id
                     /\ user.company_id \in user.company_ids
                           => user.company_id
                                 \in DOMAIN response.user_companies.allowed_companies

\* an internal user of two companies, without the multi-company group, has
\* got the backend part with the company switch off
C9_Witness ==
    /\ InfoGiven
    /\ request.env.user.group_user
    /\ ~request.env.user.group_multi_company
    /\ request.env.user.company_ids = {1, 2}
    /\ "user_companies" \in DOMAIN response
    /\ ~response.display_switch_company_menu

\* C10: with a session uid, request.session.context is the user's
\* context_get() after the call, and so is user_context in the payload;
\* without one, request.session.context is unchanged and the payload has a
\* falsy uid, is_system and is_admin False, user_context {}, company_id,
\* partner_id and cache_hashes.translations None.
C10_Context ==
    InfoGiven
        => IF request.session.uid # 0
           THEN /\ session.context = request.env.context_get
                /\ response.user_context = request.env.context_get
           ELSE /\ session.context = request.session.context
                /\ response.uid = 0
                /\ response.is_system = FALSE
                /\ response.is_admin = FALSE
                /\ response.user_context = {}
                /\ response.company_id = None
                /\ response.partner_id = None
                /\ response.cache_hashes.translations = None

\* a logged-in session whose context differed from the user's has been
\* brought in step
C10_Witness ==
    /\ InfoGiven
    /\ request.session.uid # 0
    /\ request.session.context # request.env.context_get
    /\ session.context = request.env.context_get
    /\ response.user_context = ContextFR

====
